---- MODULE Spec2Model ----
(***************************************************************************)
(* Model of getmanga.py: GetManga.get (the collecting thread), the page    *)
(* fetch threads GetManga._get_image, the semaphore and the result queue,  *)
(* the temporary and final archive files, and progress().                  *)
(***************************************************************************)
EXTENDS Integers, Sequences, FiniteSets, TLC

\* Largest page list get_pages returns in the model.
MaxPages == 3
\* Largest value of GetManga.concurrency in the model.
MaxConcurrency == 2

VARIABLES
    pc,          \* position of the thread running GetManga.get
    concurrency, \* self.concurrency
    cbz_file,    \* the file at <name>.cbz: [exists, members]
    cbz_tmp,     \* the file at <name>.cbz.tmp: [exists, members]
    cbz,         \* the ZipFile object: [open, filelist]
    existed,     \* value of os.path.isfile(cbz_file) when get was invoked
    pages,       \* list returned by get_pages
    threads,     \* number of threads started and appended to `threads`
    idx,         \* number of completed iterations of the collection loop
    semaphore,   \* permits left in the Semaphore
    queue,       \* the result Queue, oldest first
    t,           \* position of each page-fetch thread in _get_image
    outcome,     \* what each page's fetch turned out as
    exc,         \* the exception get raised or is about to raise
    stdout,      \* what was written to sys.stdout
    requests,    \* number of uriopen (HTTP GET) calls made
    mpc,             \* position of the caller of MangaSite.chapters and GetManga.latest
    descending_list, \* MangaSite.descending_list of the site's class
    doc,             \* the elements doc.cssselect(_chapters_css) finds, in page order
    chapters,        \* the list MangaSite.chapters returned
    latest           \* what GetManga.latest gave

\* The variables of the chapter listing.
mvars == <<mpc, descending_list, doc, chapters, latest>>

vars == <<pc, concurrency, cbz_file, cbz_tmp, cbz, existed, pages, threads, idx,
          semaphore, queue, t, outcome, exc, stdout, requests, mvars>>

\* The pages of a chapter, named by their position in the listing.
PageIds == 1..MaxPages

\* The falsy name of a failure result: queue.put((None, msg)).
None == 0

\* Members of an archive that was at the final path before get was invoked.
OldContent == <<None>>

NoFile == [exists |-> FALSE, members |-> <<>>]
OldFile == [exists |-> TRUE, members |-> OldContent]
NoExc == [type |-> "none", at |-> "none", cause |-> None]

\* GetManga.latest before it is read.
NoLatest == [raised |-> FALSE, number |-> None]

\* The chapter listing is not in use: get is called for a chapter already known.
MangaIdle ==
    /\ mpc = "idle"
    /\ descending_list = TRUE
    /\ doc = <<>>
    /\ chapters = <<>>
    /\ latest = NoLatest

\* name = page.name + os.path.extsep + uri.split('.')[-1]: one name per page,
\* never empty.
Name(page) == page

\* progress(page, total) raises MangaException('Unknown error') when the
\* division page / total fails.
ProgressRaises(page, total) == total = 0

\* Variant of ProgressLine: reports the pages still to collect.
ProgressLineRemaining(page, total) ==
    [kind |-> "progress", page |-> total - page, total |-> total]

\* The line progress(page, total) writes when it does not raise.
ProgressLine(page, total) == [kind |-> "progress", page |-> page, total |-> total]

Init ==
    /\ pc = "isfile"
    /\ concurrency \in 1..MaxConcurrency
    /\ cbz_file \in {NoFile, OldFile}
    /\ existed = cbz_file.exists
    /\ cbz_tmp = NoFile
    /\ cbz = [open |-> FALSE, filelist |-> <<>>]
    /\ pages = <<>>
    /\ threads = 0
    /\ idx = 0
    /\ semaphore = 0
    /\ queue = <<>>
    /\ t = [i \in PageIds |-> "unstarted"]
    /\ outcome = [i \in PageIds |-> "pending"]
    /\ exc = NoExc
    /\ stdout = <<>>
    /\ requests = 0
    /\ MangaIdle

\* Variant of IsFile: the existing file does not stop the download.
IsFileNoSkip ==
    /\ pc = "isfile"
    /\ pc' = "ZipFile"
    /\ UNCHANGED <<mvars, concurrency, cbz_file, cbz_tmp, cbz, existed, pages, threads, idx,
                   semaphore, queue, t, outcome, exc, stdout, requests>>

\* if os.path.isfile(cbz_file): write "exist, skipped download"; return
IsFile ==
    /\ pc = "isfile"
    /\ IF cbz_file.exists
       THEN /\ stdout' = Append(stdout, [kind |-> "skipped", page |-> 0, total |-> 0])
            /\ pc' = "returned"
       ELSE /\ pc' = "ZipFile"
            /\ UNCHANGED stdout
    /\ UNCHANGED <<mvars, concurrency, cbz_file, cbz_tmp, cbz, existed, pages, threads, idx,
                   semaphore, queue, t, outcome, exc, requests>>

\* cbz = ZipFile(cbz_tmp, mode='w'); IOError becomes MangaException.
OpenZipFile ==
    /\ pc = "ZipFile"
    /\ \/ /\ cbz_tmp' = [exists |-> TRUE, members |-> <<>>]
          /\ cbz' = [open |-> TRUE, filelist |-> <<>>]
          /\ stdout' = Append(stdout, [kind |-> "downloading", page |-> 0, total |-> 0])
          /\ pc' = "get_pages"
          /\ UNCHANGED exc
       \/ /\ exc' = [type |-> "MangaException", at |-> "ZipFile", cause |-> None]
          /\ pc' = "raised"
          /\ UNCHANGED <<cbz_tmp, cbz, stdout>>
    /\ UNCHANGED <<mvars, concurrency, cbz_file, existed, pages, threads, idx,
                   semaphore, queue, t, outcome, requests>>

\* pages = self.manga.get_pages(chapter.uri), outside any try block.
GetPages ==
    /\ pc = "get_pages"
    /\ requests' = requests + 1
    /\ \/ /\ \E n \in 0..MaxPages : pages' = [k \in 1..n |-> k]
          /\ pc' = "progress"
          /\ UNCHANGED exc
       \/ /\ exc' = [type |-> "Exception", at |-> "get_pages", cause |-> None]
          /\ pc' = "raised"
          /\ UNCHANGED pages
    /\ UNCHANGED <<mvars, concurrency, cbz_file, cbz_tmp, cbz, existed, threads, idx,
                   semaphore, queue, t, outcome, stdout>>

\* progress(0, len(pages)), outside any try block; then Semaphore and Queue.
Progress0 ==
    /\ pc = "progress"
    /\ IF ProgressRaises(0, Len(pages))
       THEN /\ exc' = [type |-> "MangaException", at |-> "progress", cause |-> None]
            /\ pc' = "raised"
            /\ UNCHANGED <<stdout, semaphore>>
       ELSE /\ stdout' = Append(stdout, ProgressLine(0, Len(pages)))
            /\ semaphore' = concurrency
            /\ pc' = "start"
            /\ UNCHANGED exc
    /\ UNCHANGED <<mvars, concurrency, cbz_file, cbz_tmp, cbz, existed, pages, threads, idx,
                   queue, t, outcome, requests>>

\* for page in pages: thread.start(); threads.append(thread)
\* (one iteration, or the end of the loop).
StartThread ==
    /\ pc = "start"
    /\ IF threads < Len(pages)
       THEN /\ t' = [t EXCEPT ![pages[threads + 1]] = "acquire"]
            /\ threads' = threads + 1
            /\ UNCHANGED pc
       ELSE /\ pc' = "join"
            /\ UNCHANGED <<t, threads>>
    /\ UNCHANGED <<mvars, concurrency, cbz_file, cbz_tmp, cbz, existed, pages, idx,
                   semaphore, queue, outcome, exc, stdout, requests>>

\* Variant of Join: the collector does not wait for the thread to end.
JoinNoWait ==
    /\ pc = "join"
    /\ pc' = IF idx < threads THEN "queue_get" ELSE "commit"
    /\ UNCHANGED <<mvars, concurrency, cbz_file, cbz_tmp, cbz, existed, pages, threads, idx,
                   semaphore, queue, t, outcome, exc, stdout, requests>>

\* Variant of Join: the loop ends as soon as the queue is empty.
JoinUntilEmpty ==
    /\ pc = "join"
    /\ IF idx < threads /\ (idx = 0 \/ queue # <<>>)
       THEN /\ t[pages[idx + 1]] = "done"
            /\ pc' = "queue_get"
       ELSE pc' = "commit"
    /\ UNCHANGED <<mvars, concurrency, cbz_file, cbz_tmp, cbz, existed, pages, threads, idx,
                   semaphore, queue, t, outcome, exc, stdout, requests>>

\* for thread in threads: thread.join()   (or the end of the loop: else branch)
Join ==
    /\ pc = "join"
    /\ IF idx < threads
       THEN /\ t[pages[idx + 1]] = "done"
            /\ pc' = "queue_get"
       ELSE pc' = "commit"
    /\ UNCHANGED <<mvars, concurrency, cbz_file, cbz_tmp, cbz, existed, pages, threads, idx,
                   semaphore, queue, t, outcome, exc, stdout, requests>>

\* cbz.writestr(name, image): one more member in the archive.
Writestr(members, name) == Append(members, name)

\* Variant of QueueGet: a failure result is dropped and collection goes on.
QueueGetSkipsFailure ==
    /\ pc = "queue_get"
    /\ queue # <<>>
    /\ queue' = Tail(queue)
    /\ LET name == Head(queue).name
           filelist == Writestr(cbz.filelist, name)
       IN IF name # None
          THEN /\ cbz' = [cbz EXCEPT !.filelist = filelist]
               /\ cbz_tmp' = [cbz_tmp EXCEPT !.members = Writestr(@, name)]
               /\ stdout' = Append(stdout, ProgressLine(Len(filelist), Len(pages)))
          ELSE UNCHANGED <<cbz, cbz_tmp, stdout>>
    /\ idx' = idx + 1
    /\ pc' = "join"
    /\ UNCHANGED <<mvars, concurrency, cbz_file, existed, pages, threads,
                   semaphore, t, outcome, exc, requests>>

\* Variant of QueueGet: on a failure result, the error raised is the one of
\* the lowest-numbered page whose fetch has failed so far.
QueueGetLowestFailure ==
    /\ pc = "queue_get"
    /\ queue # <<>>
    /\ queue' = Tail(queue)
    /\ LET name == Head(queue).name
           filelist == Writestr(cbz.filelist, name)
           failed == {i \in PageIds : outcome[i] = "MangaException"}
       IN IF name # None
          THEN /\ cbz' = [cbz EXCEPT !.filelist = filelist]
               /\ cbz_tmp' = [cbz_tmp EXCEPT !.members = Writestr(@, name)]
               /\ stdout' = Append(stdout, ProgressLine(Len(filelist), Len(pages)))
               /\ idx' = idx + 1
               /\ pc' = "join"
               /\ UNCHANGED exc
          ELSE /\ exc' = [type |-> "MangaException", at |-> "collect",
                          cause |-> CHOOSE i \in failed : \A j \in failed : i <= j]
               /\ pc' = "abort"
               /\ UNCHANGED <<cbz, cbz_tmp, stdout, idx>>
    /\ UNCHANGED <<mvars, concurrency, cbz_file, existed, pages, threads,
                   semaphore, t, outcome, requests>>

\* name, image = queue.get(); if name: writestr, progress; else: raise
QueueGet ==
    /\ pc = "queue_get"
    /\ queue # <<>>
    /\ queue' = Tail(queue)
    /\ LET name == Head(queue).name
           image == Head(queue).image
           filelist == Writestr(cbz.filelist, name)
       IN IF name # None
          THEN /\ cbz' = [cbz EXCEPT !.filelist = filelist]
               /\ cbz_tmp' = [cbz_tmp EXCEPT !.members = Writestr(@, name)]
               /\ IF ProgressRaises(Len(filelist), Len(pages))
                  THEN /\ exc' = [type |-> "MangaException", at |-> "collect",
                                  cause |-> None]
                       /\ pc' = "abort"
                       /\ UNCHANGED <<stdout, idx>>
                  ELSE /\ stdout' = Append(stdout, ProgressLine(Len(filelist), Len(pages)))
                       /\ idx' = idx + 1
                       /\ pc' = "join"
                       /\ UNCHANGED exc
          ELSE /\ exc' = [type |-> "MangaException", at |-> "collect", cause |-> image]
               /\ pc' = "abort"
               /\ UNCHANGED <<cbz, cbz_tmp, stdout, idx>>
    /\ UNCHANGED <<mvars, concurrency, cbz_file, existed, pages, threads,
                   semaphore, t, outcome, requests>>

\* Variant of Abort: the temporary file is closed but not removed.
AbortKeepsTmp ==
    /\ pc = "abort"
    /\ cbz' = [cbz EXCEPT !.open = FALSE]
    /\ pc' = "raised"
    /\ UNCHANGED <<mvars, concurrency, cbz_file, cbz_tmp, existed, pages, threads, idx,
                   semaphore, queue, t, outcome, exc, stdout, requests>>

\* except Exception as msg: cbz.close(); os.remove(cbz_tmp); raise MangaException(msg)
Abort ==
    /\ pc = "abort"
    /\ cbz' = [cbz EXCEPT !.open = FALSE]
    /\ cbz_tmp' = NoFile
    /\ pc' = "raised"
    /\ UNCHANGED <<mvars, concurrency, cbz_file, existed, pages, threads, idx,
                   semaphore, queue, t, outcome, exc, stdout, requests>>

\* else: cbz.close(); os.rename(cbz_tmp, cbz_file)
Commit ==
    /\ pc = "commit"
    /\ cbz' = [cbz EXCEPT !.open = FALSE]
    /\ cbz_file' = cbz_tmp
    /\ cbz_tmp' = NoFile
    /\ pc' = "returned"
    /\ UNCHANGED <<mvars, concurrency, existed, pages, threads, idx,
                   semaphore, queue, t, outcome, exc, stdout, requests>>

\* The ways a call made by a page-fetch thread can end: it returns, it raises
\* the MangaException that line 116 catches (a site adapter's failure), or it
\* raises anything else (requests.get's transport errors, the IndexError of
\* get_image_uri on a page without the image element).
Outcomes == {"ok", "MangaException", "Exception"}

\* Where _get_image continues after a call that ended as o; next is the
\* statement after the call.
AfterCall(o, next) ==
    IF o = "ok" THEN next
    ELSE IF o = "MangaException" THEN "except"
    ELSE "finally"

\* Variant of Acquire: takes a permit without waiting for one.
AcquireNoBlock(i) ==
    /\ t[i] = "acquire"
    /\ semaphore' = semaphore - 1
    /\ t' = [t EXCEPT ![i] = "get_image_uri"]
    /\ UNCHANGED <<mvars, pc, concurrency, cbz_file, cbz_tmp, cbz, existed, pages, threads, idx,
                   queue, outcome, exc, stdout, requests>>

\* semaphore.acquire(): blocks while no permit is left.
Acquire(i) ==
    /\ t[i] = "acquire"
    /\ semaphore > 0
    /\ semaphore' = semaphore - 1
    /\ t' = [t EXCEPT ![i] = "get_image_uri"]
    /\ UNCHANGED <<mvars, pc, concurrency, cbz_file, cbz_tmp, cbz, existed, pages, threads, idx,
                   queue, outcome, exc, stdout, requests>>

\* uri = self.manga.get_image_uri(page.uri); name = ...
GetImageUri(i) ==
    /\ t[i] = "get_image_uri"
    /\ requests' = requests + 1
    /\ \E o \in Outcomes :
          /\ t' = [t EXCEPT ![i] = AfterCall(o, "uriopen")]
          /\ outcome' = IF o = "ok" THEN outcome ELSE [outcome EXCEPT ![i] = o]
    /\ UNCHANGED <<mvars, pc, concurrency, cbz_file, cbz_tmp, cbz, existed, pages, threads, idx,
                   semaphore, queue, exc, stdout>>

\* image = uriopen(uri)
UriOpen(i) ==
    /\ t[i] = "uriopen"
    /\ requests' = requests + 1
    /\ \E o \in Outcomes :
          /\ t' = [t EXCEPT ![i] = AfterCall(o, "else")]
          /\ outcome' = [outcome EXCEPT ![i] = o]
    /\ UNCHANGED <<mvars, pc, concurrency, cbz_file, cbz_tmp, cbz, existed, pages, threads, idx,
                   semaphore, queue, exc, stdout>>

\* except MangaException as msg: queue.put((None, msg))
PutFailure(i) ==
    /\ t[i] = "except"
    /\ queue' = Append(queue, [name |-> None, image |-> i])
    /\ t' = [t EXCEPT ![i] = "finally"]
    /\ UNCHANGED <<mvars, pc, concurrency, cbz_file, cbz_tmp, cbz, existed, pages, threads, idx,
                   semaphore, outcome, exc, stdout, requests>>

\* Variant of PutResult: the thread writes its image into the archive itself.
PutResultWritesArchive(i) ==
    /\ t[i] = "else"
    /\ cbz' = [cbz EXCEPT !.filelist = Writestr(@, Name(i))]
    /\ cbz_tmp' = [cbz_tmp EXCEPT !.members = Writestr(@, Name(i))]
    /\ queue' = Append(queue, [name |-> Name(i), image |-> i])
    /\ t' = [t EXCEPT ![i] = "finally"]
    /\ UNCHANGED <<mvars, pc, concurrency, cbz_file, existed, pages, threads, idx,
                   semaphore, outcome, exc, stdout, requests>>

\* else: queue.put((name, image))
PutResult(i) ==
    /\ t[i] = "else"
    /\ queue' = Append(queue, [name |-> Name(i), image |-> i])
    /\ t' = [t EXCEPT ![i] = "finally"]
    /\ UNCHANGED <<mvars, pc, concurrency, cbz_file, cbz_tmp, cbz, existed, pages, threads, idx,
                   semaphore, outcome, exc, stdout, requests>>

\* Variant of Release: the permit is given back after a put only, not in a
\* finally clause.
ReleaseAfterPutOnly(i) ==
    /\ t[i] = "finally"
    /\ semaphore' = IF outcome[i] = "Exception" THEN semaphore ELSE semaphore + 1
    /\ t' = [t EXCEPT ![i] = "done"]
    /\ UNCHANGED <<mvars, pc, concurrency, cbz_file, cbz_tmp, cbz, existed, pages, threads, idx,
                   queue, outcome, exc, stdout, requests>>

\* finally: semaphore.release(); the thread ends.
Release(i) ==
    /\ t[i] = "finally"
    /\ semaphore' = semaphore + 1
    /\ t' = [t EXCEPT ![i] = "done"]
    /\ UNCHANGED <<mvars, pc, concurrency, cbz_file, cbz_tmp, cbz, existed, pages, threads, idx,
                   queue, outcome, exc, stdout, requests>>

\* The thread that runs GetManga.get.
Collector ==
    \/ IsFile
    \/ OpenZipFile
    \/ GetPages
    \/ Progress0
    \/ StartThread
    \/ Join
    \/ QueueGet
    \/ Abort
    \/ Commit

\* The thread that runs _get_image for page i.
Worker(i) ==
    \/ Acquire(i)
    \/ GetImageUri(i)
    \/ UriOpen(i)
    \/ PutFailure(i)
    \/ PutResult(i)
    \/ Release(i)

Next == Collector \/ \E i \in PageIds : Worker(i)

Spec == Init /\ [][Next]_vars

\* Every thread that can take a step eventually takes one.
FairSpec == Spec /\ WF_vars(Collector) /\ \A i \in PageIds : WF_vars(Worker(i))

TypeOK ==
    /\ pc \in {"isfile", "ZipFile", "get_pages", "progress", "start", "join",
               "queue_get", "abort", "commit", "returned", "raised"}
    /\ concurrency \in 1..MaxConcurrency
    /\ existed \in BOOLEAN
    /\ threads \in 0..Len(pages)
    /\ idx \in 0..threads
    /\ semaphore \in 0..concurrency
    /\ \A i \in PageIds : t[i] \in {"unstarted", "acquire", "get_image_uri", "uriopen",
                                    "except", "else", "finally", "done"}
    /\ \A i \in PageIds : outcome[i] \in Outcomes \cup {"pending"}


(***************************************************************************)
(* MangaSite.chapters and GetManga.latest                                  *)
(***************************************************************************)

\* Largest chapter number a site lists in the model.
MaxChapter == 4

\* The chapter numbers, smallest first.
RECURSIVE Ascending(_)
Ascending(S) ==
    IF S = {} THEN <<>>
    ELSE LET m == CHOOSE x \in S : \A y \in S : x <= y
         IN <<m>> \o Ascending(S \ {m})

\* The chapter numbers, largest first.
RECURSIVE Descending(_)
Descending(S) ==
    IF S = {} THEN <<>>
    ELSE LET m == CHOOSE x \in S : \A y \in S : x >= y
         IN <<m>> \o Descending(S \ {m})

\* A site's index page: one link per chapter it has, newest first on a site
\* whose class says descending_list, oldest first otherwise; valid[n] is
\* what _is_valid_location gives for the link of chapter n.
ChaptersInit ==
    /\ pc = "isfile"
    /\ concurrency = 1
    /\ cbz_file = NoFile
    /\ existed = FALSE
    /\ cbz_tmp = NoFile
    /\ cbz = [open |-> FALSE, filelist |-> <<>>]
    /\ pages = <<>>
    /\ threads = 0
    /\ idx = 0
    /\ semaphore = 0
    /\ queue = <<>>
    /\ t = [i \in PageIds |-> "unstarted"]
    /\ outcome = [i \in PageIds |-> "pending"]
    /\ exc = NoExc
    /\ stdout = <<>>
    /\ requests = 0
    /\ mpc = "chapters"
    /\ descending_list \in BOOLEAN
    /\ \E present \in SUBSET (1..MaxChapter) :
       \E valid \in [1..MaxChapter -> BOOLEAN] :
          /\ \A n \in (1..MaxChapter) \ present : valid[n]
          /\ LET numbers == IF descending_list THEN Descending(present)
                            ELSE Ascending(present)
             IN doc = [k \in 1..Len(numbers) |->
                          [number |-> numbers[k], valid |-> valid[numbers[k]]]]
    /\ chapters = <<>>
    /\ latest = NoLatest

\* Variant of Reversed: the list is left in the order of the page.
ReversedNot(s) == s

\* reversed(_chapters)
Reversed(s) == [k \in 1..Len(s) |-> s[Len(s) + 1 - k]]

\* self._is_valid_location(location)
IsValidLocation(e) == e.valid

\* Chapter(number, name, uri) of a link.
ChapterOf(e) == [number |-> e.number]

\* for _chapter in _chapters: if valid: chapters.append(Chapter(...))
RECURSIVE ChaptersLoop(_, _)
ChaptersLoop(elements, acc) ==
    IF elements = <<>> THEN acc
    ELSE ChaptersLoop(Tail(elements),
                      IF IsValidLocation(Head(elements))
                      THEN Append(acc, ChapterOf(Head(elements)))
                      ELSE acc)

\* The value of the property MangaSite.chapters.
ChaptersOf(elements, descending) ==
    ChaptersLoop(IF descending THEN Reversed(elements) ELSE elements, <<>>)

\* A caller reads manga.chapters.
ListChapters ==
    /\ mpc = "chapters"
    /\ chapters' = ChaptersOf(doc, descending_list)
    /\ mpc' = "latest"
    /\ UNCHANGED <<pc, concurrency, cbz_file, cbz_tmp, cbz, existed, pages, threads, idx,
                   semaphore, queue, t, outcome, exc, stdout, requests,
                   descending_list, doc, latest>>

\* A caller reads GetManga.latest: self.manga.chapters[-1], the property
\* evaluated again; IndexError on an empty list.
GetLatest ==
    /\ mpc = "latest"
    /\ LET list == ChaptersOf(doc, descending_list)
       IN latest' = IF list = <<>>
                    THEN [raised |-> TRUE, number |-> None]
                    ELSE [raised |-> FALSE, number |-> list[Len(list)].number]
    /\ mpc' = "done"
    /\ UNCHANGED <<pc, concurrency, cbz_file, cbz_tmp, cbz, existed, pages, threads, idx,
                   semaphore, queue, t, outcome, exc, stdout, requests,
                   descending_list, doc, chapters>>

ChaptersNext == ListChapters \/ GetLatest

ChaptersSpec == ChaptersInit /\ [][ChaptersNext]_vars

(***************************************************************************)
(* Vocabulary of the properties                                            *)
(***************************************************************************)

\* The progress lines written so far, in order.
Reports == SelectSeq(stdout, LAMBDA m : m.kind = "progress")

\* Page i's fetch failed (for whatever cause).
Failed(i) == outcome[i] \in {"MangaException", "Exception"}

\* get has ended, by return or by raise.
Ended == pc \in {"returned", "raised"}

\* get_pages has returned a page list in this run.
Listed ==
    /\ pc \notin {"isfile", "ZipFile", "get_pages"}
    /\ exc.at \notin {"ZipFile", "get_pages"}
    /\ ~existed

\* get ran to the rename in this run.
Committed == pc = "returned" /\ ~existed

\* Threads holding a permit: after semaphore.acquire(), before the release.
InFlight == {i \in PageIds : t[i] \in {"get_image_uri", "uriopen", "except", "else",
                                       "finally"}}

\* Number of positions of members that hold name.
Occurrences(members, name) == Cardinality({j \in 1..Len(members) : members[j] = name})

(***************************************************************************)
(* Properties                                                              *)
(***************************************************************************)

\* C1: when get succeeds, the k-th member of the archive at the final path
\* is the result of the k-th page of the list get_pages returned.
C1_OrderPreserved ==
    Committed =>
        /\ Len(cbz_file.members) = Len(pages)
        /\ \A k \in 1..Len(pages) : cbz_file.members[k] = Name(pages[k])

\* C2: whenever a page's fetch has failed, for any cause, get eventually
\* ends by raising a MangaException, and it never returns normally.
C2_FailureAlwaysAborts ==
    /\ (\E i \in PageIds : Failed(i)) ~> (pc = "raised" /\ exc.type = "MangaException")
    /\ []((\E i \in PageIds : Failed(i)) => pc # "returned")

\* C3: if exactly one of N >= 2 page fetches failed, then once get has
\* returned or raised there is no file at the final path and no temporary file.
C3_AllOrNothing ==
    (/\ Ended
     /\ Len(pages) >= 2
     /\ Cardinality({i \in PageIds : Failed(i)}) = 1)
        => (~cbz_file.exists /\ ~cbz_tmp.exists)

\* C3 witness: get raised after one of three fetches failed, and members had
\* already been written to the temporary archive.
C3_Witness ==
    /\ pc = "raised"
    /\ exc.at = "collect"
    /\ Len(pages) = 3
    /\ Cardinality({i \in PageIds : Failed(i)}) = 1
    /\ Len(cbz.filelist) >= 1

\* C4: at most `concurrency` page-fetch threads are between
\* semaphore.acquire() and semaphore.release().
C4_ConcurrencyCap == Cardinality(InFlight) <= concurrency

\* C4 witness: the cap is reached while another started thread waits for a permit.
C4_Witness ==
    /\ Cardinality(InFlight) = concurrency
    /\ \E i \in PageIds : t[i] = "acquire"

\* C5: once get has raised for a failing fetch result, no thread that was
\* still waiting for a permit acquires one.
C5_NoDispatchAfterFailure ==
    [][(pc = "raised" /\ exc.at = "collect")
          => \A i \in PageIds : t[i] = "acquire" => t'[i] = "acquire"]_vars

\* C6: if the final file existed when get was invoked, get only returns: no
\* request is made, no thread is started, no temporary file is created and
\* the final file is as it was.
C6_SkipIfExists ==
    existed =>
        /\ pc \in {"isfile", "returned"}
        /\ exc = NoExc
        /\ requests = 0
        /\ threads = 0
        /\ \A i \in PageIds : t[i] = "unstarted"
        /\ ~cbz_tmp.exists
        /\ ~cbz.open
        /\ cbz_file = OldFile

\* C6 witness: get has returned for a chapter whose file existed.
C6_Witness == existed /\ pc = "returned" /\ Len(stdout) = 1

\* C7: a file this run put at the final path holds exactly one member per
\* listed page, and every page's fetch succeeded.
C7_CommitOnlyWhenComplete ==
    (cbz_file.exists /\ ~existed) =>
        /\ \A k \in 1..Len(pages) : outcome[pages[k]] = "ok"
        /\ Len(cbz_file.members) = Len(pages)
        /\ \A k \in 1..Len(pages) : Occurrences(cbz_file.members, Name(pages[k])) = 1

\* C7 witness: a three-page chapter has been committed.
C7_Witness == cbz_file.exists /\ ~existed /\ Len(pages) = 3 /\ pc = "returned"

\* C8: for an empty page list get returns normally, with an archive of zero
\* members at the final path and no temporary file.
C8_EmptyChapterCommits ==
    (Listed /\ Len(pages) = 0 /\ Ended) =>
        /\ pc = "returned"
        /\ cbz_file = [exists |-> TRUE, members |-> <<>>]
        /\ ~cbz_tmp.exists

\* C9: after get_pages failed inside get, neither the final file nor the
\* temporary file exists.
C9_ListingErrorWritesNothing ==
    (pc = "raised" /\ exc.at = "get_pages") => (~cbz_file.exists /\ ~cbz_tmp.exists)

\* C10: the counts reported to progress() are 0, 1, 2, ... with total N, the
\* last one being the number of pages collected so far; after a successful
\* run the last report is (N, N), and a failing run never reports count N.
C10_ProgressMonotone ==
    LET r == Reports
        n == Len(pages)
    IN /\ \A k \in 1..Len(r) : r[k].total = n
       /\ \A k \in 1..Len(r) : \A j \in 1..k : r[j].page <= r[k].page
       /\ r # <<>> => /\ Len(r) = Len(cbz.filelist) + 1
                      /\ \A k \in 1..Len(r) : r[k].page = k - 1
       /\ Committed => (r # <<>> /\ r[Len(r)] = ProgressLine(n, n))
       /\ pc \in {"abort", "raised"} => \A k \in 1..Len(r) : r[k].page # n

\* C10 witness: a three-page chapter was committed after four reports.
C10_Witness == Committed /\ Len(pages) = 3 /\ Len(Reports) = 4

\* C11: the archive (the ZipFile object, the temporary file, the final file)
\* changes only in steps of the thread running get, never in a step of a
\* page-fetch thread, and no member is written unless the archive is open.
C11_SingleWriter ==
    [][(cbz' # cbz \/ cbz_tmp' # cbz_tmp \/ cbz_file' # cbz_file)
          => /\ t' = t
             /\ pc' # pc
             /\ (cbz'.filelist # cbz.filelist => cbz.open /\ cbz'.open)
             /\ (cbz_tmp.exists /\ cbz_tmp'.exists /\ cbz_tmp'.members # cbz_tmp.members
                    => cbz.open)]_vars

\* C11 witness: a member has been written while a page-fetch thread holds a
\* permit and another result waits in the queue.
C11_Witness ==
    /\ Len(cbz.filelist) >= 1
    /\ cbz.open
    /\ InFlight # {}
    /\ queue # <<>>

\* Number of results page i's thread has put on the queue: those still
\* queued, and those dequeued (written to the archive, or raised as the cause).
Enqueued(i) ==
    Cardinality({j \in 1..Len(queue) : queue[j].image = i})
    + Occurrences(cbz.filelist, Name(i))
    + (IF exc.at = "collect" /\ exc.cause = i THEN 1 ELSE 0)

\* C13: a page-fetch thread that has terminated has put exactly one result on
\* the queue, whatever way its fetch ended; once all N threads have
\* terminated, N results have been enqueued.
C13_OneResultPerPage ==
    /\ \A i \in PageIds : t[i] = "done" => Enqueued(i) = 1
    /\ \A i \in PageIds : Enqueued(i) <= 1

\* C14: when get fails for a failing page fetch it raises one MangaException
\* whose cause is the error of the failure result it dequeued, the first
\* failure dequeued; the results dequeued before it were written to the
\* temporary archive, and nothing is dequeued afterwards.
C14_FailureCause ==
    /\ [](exc.at = "collect" =>
            /\ pc \in {"abort", "raised"}
            /\ exc.type = "MangaException"
            /\ exc.cause # None
            /\ outcome[exc.cause] = "MangaException"
            /\ Len(cbz.filelist) = idx
            /\ \A k \in 1..Len(cbz.filelist) : outcome[cbz.filelist[k]] = "ok"
            /\ pc = "abort" => cbz_tmp.members = cbz.filelist)
    /\ [][/\ (pc = "queue_get" /\ pc' = "abort")
              => /\ Head(queue).name = None
                 /\ exc'.cause = Head(queue).image
          /\ (pc \in {"abort", "raised"})
              => /\ exc' = exc
                 /\ Len(queue') >= Len(queue)
                 /\ cbz'.filelist = cbz.filelist]_vars

\* C14 witness: get raised with page 2's error although page 1's fetch failed
\* too, after one member had been written.
C14_Witness ==
    /\ pc = "raised"
    /\ exc.at = "collect"
    /\ exc.cause = 2
    /\ outcome[1] = "MangaException"
    /\ Len(cbz.filelist) = 1

\* Position in the index page of the link of chapter n.
PositionInDoc(n) == CHOOSE k \in 1..Len(doc) : doc[k].number = n

\* C15: MangaSite.chapters holds exactly the links with a valid location, in
\* ascending chapter order: in reverse page order on a descending_list site,
\* in page order otherwise; GetManga.latest is the last of them.
C15_ChaptersAscending ==
    LET validNumbers == {doc[k].number : k \in {j \in 1..Len(doc) : doc[j].valid}}
    IN /\ mpc \in {"latest", "done"} =>
            /\ {chapters[k].number : k \in 1..Len(chapters)} = validNumbers
            /\ Len(chapters) = Cardinality(validNumbers)
            /\ \A a, b \in 1..Len(chapters) :
                  a < b => /\ chapters[a].number < chapters[b].number
                           /\ IF descending_list
                              THEN PositionInDoc(chapters[a].number)
                                      > PositionInDoc(chapters[b].number)
                              ELSE PositionInDoc(chapters[a].number)
                                      < PositionInDoc(chapters[b].number)
       /\ (mpc = "done" /\ chapters # <<>>) =>
            /\ ~latest.raised
            /\ latest.number = chapters[Len(chapters)].number
            /\ \A n \in validNumbers : n <= latest.number

\* C15 witness: a descending site's page with an invalid link gave two or
\* more chapters, and latest was read.
C15_Witness ==
    /\ mpc = "done"
    /\ descending_list
    /\ Len(chapters) >= 2
    /\ Len(doc) > Len(chapters)

\* No page-fetch thread has ended without putting a result on the queue.
EveryWorkerEnqueues == \A i \in PageIds : outcome[i] # "Exception"

\* C16: as long as every thread that ended put one result on the queue, the
\* queue is not empty when the collector is at queue.get() after a join
\* (idx + 1 results or more were enqueued, idx were dequeued); and with fair
\* scheduling get ends unless some thread ends without a result.
C16_CollectorNeverBlocks ==
    /\ []((pc = "queue_get" /\ EveryWorkerEnqueues)
            => /\ queue # <<>>
               /\ Len(queue) + idx >= idx + 1
               /\ Len(cbz.filelist) = idx)
    /\ (<>(~EveryWorkerEnqueues) \/ <>Ended)

\* C16 witness: the collector is at its third queue.get() with a result
\* waiting, every thread so far having enqueued one.
C16_Witness ==
    /\ pc = "queue_get"
    /\ idx = 2
    /\ EveryWorkerEnqueues
    /\ queue # <<>>

\* Page i's thread has put a failure result (None, msg) on the queue.
FailureEnqueued(i) == outcome[i] = "MangaException" /\ t[i] \in {"finally", "done"}

\* C17: once a thread has enqueued a failure result, get never reaches the
\* rename nor returns; with fair scheduling the collector dequeues a failure
\* and get raises.
C17_NoLostFailure ==
    /\ []((\E i \in PageIds : FailureEnqueued(i))
            => /\ pc \notin {"commit", "returned"}
               /\ ~cbz_file.exists)
    /\ ((\E i \in PageIds : FailureEnqueued(i))
            ~> (pc = "raised" /\ exc.at = "collect" /\ FailureEnqueued(exc.cause)))

\* C17 witness: get raised for a failure that was enqueued behind two
\* successful results.
C17_Witness ==
    /\ pc = "raised"
    /\ exc.at = "collect"
    /\ Len(cbz.filelist) = 2
    /\ FailureEnqueued(exc.cause)

\* The Semaphore has been created (line 84).
SemaphoreCreated == pc = "start" \/ threads > 0

\* C18: every thread gives back the permit it took, once, whatever way its
\* fetch ended, and after its put if it puts: the permits left are
\* concurrency minus the threads holding one, never more than concurrency,
\* and concurrency again once all threads have ended; with fair scheduling
\* every started thread gets a permit and ends.
C18_NoLeakedSlots ==
    /\ [](SemaphoreCreated =>
            /\ semaphore + Cardinality(InFlight) = concurrency
            /\ semaphore <= concurrency
            /\ (\A k \in 1..Len(pages) : t[pages[k]] = "done") => semaphore = concurrency
            /\ \A i \in PageIds :
                  (t[i] \in {"finally", "done"} /\ outcome[i] # "Exception")
                      => Enqueued(i) = 1)
    /\ \A i \in PageIds : (t[i] = "acquire") ~> (t[i] = "done")

\* C18 witness: three threads have ended, one by a MangaException and one by
\* another exception, and all permits are back.
C18_Witness ==
    /\ Len(pages) = 3
    /\ \A i \in 1..3 : t[i] = "done"
    /\ \E i \in 1..3 : outcome[i] = "Exception"
    /\ \E i \in 1..3 : outcome[i] = "MangaException"
    /\ semaphore = concurrency

====
